---- MODULE Spec2Model ----
(***************************************************************************)
(* A model of sfa_tracker2.py: the episode-code matcher, the HTTP retry    *)
(* loop, the per-run fetch with de-duplication, the post selectors and the *)
(* append-only comment history.                                            *)
(*                                                                         *)
(* Strings are sequences of one-character strings, so that matching,       *)
(* parsing and formatting are computed character by character.             *)
(***************************************************************************)
EXTENDS Integers, Sequences, FiniteSets, TLC

VARIABLES
    title,          \* extract_episode_code: the argument
    episode_code,   \* extract_episode_code: the value returned
    ep_pc,          \* "call" before the call, "returned" after it
    max_retries,    \* request_json: the max_retries argument
    attempt,        \* request_json: the loop variable
    req_pc,         \* "loop" inside the for loop, "returned", "raised" or "idle"
    req_exc,        \* the exception request_json raised, or "none"
    response,       \* the response r of the latest session.get
    wait,           \* the argument of the latest time.sleep of the call
    n_requests,     \* session.get calls made by the current call
    pc,             \* main: the statement the run is at, or "idle" between runs
    snapshot,       \* main: the snapshot time of the latest run (a run counter)
    pos,            \* fetch_search_posts: the (subreddit, term) pair being searched
    posts,          \* fetch_search_posts: posts, then main: posts
    seen_ids,       \* fetch_search_posts: seen_ids
    searches,       \* how many searches the run has issued for each pair
    first_seen,     \* per post id, the first child the run's searches returned
    repeated,       \* a search of the run returned a seen id with other data
    all_csv,        \* ALL_POSTS_CSV
    eps_csv,        \* EPISODE_POSTS_CSV
    sel_csv,        \* SELECTED_POSTS_CSV
    history,        \* COMMENT_HISTORY_CSV
    episode_png,    \* EPISODE_PLOT_PNG
    non_episode_png, \* NON_EPISODE_PLOT_PNG
    dashboard,      \* DASHBOARD_HTML
    failed_runs,    \* the runs logged as "FAILED run"
    sel_posts,      \* main: the posts handed to pick_trailer and pick_other_posts
    sel_n,          \* main: OTHER_POSTS_N
    trailer,        \* main: trailer
    others,         \* main: others
    selected,       \* main: selected
    sel_pc          \* "call" before the selection, "done" after it

epVars == <<title, episode_code, ep_pc>>

reqVars == <<max_retries, attempt, req_pc, req_exc, response, wait, n_requests>>

fetchVars == <<pos, posts, seen_ids, searches, first_seen, repeated>>

fileVars == <<all_csv, eps_csv, sel_csv, history, episode_png, non_episode_png, dashboard>>

runVars == <<pc, snapshot, fetchVars, fileVars, failed_runs>>

selVars == <<sel_posts, sel_n, trailer, others, selected, sel_pc>>

vars == <<epVars, reqVars, runVars, selVars>>

----------------------------------------------------------------------------
(* Characters and strings *)

\* Python's None, as a value of the same shape as a string
None == <<"<None>">>

Digits == <<"0", "1", "2", "3", "4", "5", "6", "7", "8", "9">>

UpperCase == <<"A", "B", "C", "D", "E", "F", "G", "H", "I", "J", "K", "L", "M",
               "N", "O", "P", "Q", "R", "S", "T", "U", "V", "W", "X", "Y", "Z">>

LowerCase == <<"a", "b", "c", "d", "e", "f", "g", "h", "i", "j", "k", "l", "m",
               "n", "o", "p", "q", "r", "s", "t", "u", "v", "w", "x", "y", "z">>

Range(s) == {s[i] : i \in DOMAIN s}

IsDigit(c) == c \in Range(Digits)

\* \s of the re module, over the characters the titles are built from
IsSpace(c) == c = " "

\* \w of the re module: letters, digits and the underscore
IsWord(c) == c \in Range(Digits) \cup Range(UpperCase) \cup Range(LowerCase) \cup {"_"}

\* str.lower() on one character
LowerChar(c) ==
    IF c \in Range(UpperCase)
    THEN LowerCase[CHOOSE i \in DOMAIN UpperCase : UpperCase[i] = c]
    ELSE c

\* str.lower()
Lower(s) == [i \in DOMAIN s |-> LowerChar(s[i])]

\* s[i : i + n] of Python, for 1-based i
Sub(s, i, n) == SubSeq(s, i, i + n - 1)

\* sub occurs in s starting at the 1-based position i
OccursAt(sub, s, i) ==
    /\ i + Len(sub) - 1 <= Len(s)
    /\ \A k \in 1 .. Len(sub) : s[i + k - 1] = sub[k]

\* `sub in s` and `s.find(sub) != -1`
Contains(sub, s) == \E i \in 1 .. (Len(s) + 1) : OccursAt(sub, s, i)

\* the value of one decimal digit
DigitValue(c) == (CHOOSE i \in DOMAIN Digits : Digits[i] = c) - 1

\* int(s) for a non-empty string of decimal digits
RECURSIVE ToInt(_)
ToInt(s) ==
    IF Len(s) = 0 THEN 0
    ELSE 10 * ToInt(SubSeq(s, 1, Len(s) - 1)) + DigitValue(s[Len(s)])

\* str(n) for n >= 0
RECURSIVE IntToStr(_)
IntToStr(n) ==
    IF n < 10 THEN <<Digits[n + 1]>>
    ELSE IntToStr(n \div 10) \o <<Digits[(n % 10) + 1]>>

\* f"{n:02d}" for n >= 0
ZeroPad2(n) == IF n < 10 THEN <<"0">> \o IntToStr(n) ELSE IntToStr(n)

----------------------------------------------------------------------------
(* Episode parsing: EP_PATTERNS and extract_episode_code *)

\* the result of a failed search
NoMatch == <<>>

\* \b at the 1-based position i of t (between t[i-1] and t[i])
Boundary(t, i) ==
    LET before == i > 1 /\ IsWord(t[i - 1])
        after  == i <= Len(t) /\ IsWord(t[i])
    IN  before # after

\* t[i : i + n] is n decimal digits
DigitsAt(t, i, n) ==
    /\ i + n - 1 <= Len(t)
    /\ \A k \in i .. (i + n - 1) : IsDigit(t[k])

\* the position after a greedy \s* started at i.  Each \s* of EP_PATTERNS is
\* followed by a non-space character class, so giving back a space never helps.
RECURSIVE SkipSpaces(_, _)
SkipSpaces(t, i) ==
    IF i <= Len(t) /\ IsSpace(t[i]) THEN SkipSpaces(t, i + 1) ELSE i

\* (\d{1,2})\b at position k: two digits are tried before one
DigitsThenBoundary(t, k) ==
    IF DigitsAt(t, k, 2) /\ Boundary(t, k + 2) THEN Sub(t, k, 2)
    ELSE IF DigitsAt(t, k, 1) /\ Boundary(t, k + 1) THEN Sub(t, k, 1)
    ELSE NoMatch

\* \s*[xX]\s*(\d{1,2})\b or \s*[Ee](\d{1,2})\b at position j, after group 1
SeparatorThenDigits(t, j, sepChars, spacesAfter) ==
    LET s == SkipSpaces(t, j)
    IN  IF s <= Len(t) /\ t[s] \in sepChars
        THEN DigitsThenBoundary(t, IF spacesAfter THEN SkipSpaces(t, s + 1) ELSE s + 1)
        ELSE NoMatch

\* (\d{1,2}) followed by the separator and group 2, at position i
TwoGroupsAt(t, i, sepChars, spacesAfter) ==
    LET try(n) ==
            IF DigitsAt(t, i, n)
            THEN LET g2 == SeparatorThenDigits(t, i + n, sepChars, spacesAfter)
                 IN  IF g2 = NoMatch THEN NoMatch ELSE <<Sub(t, i, n), g2>>
            ELSE NoMatch
    IN  IF try(2) # NoMatch THEN try(2) ELSE try(1)

\* \b(\d{1,2})\s*[xX]\s*(\d{1,2})\b anchored at position i
MatchNxMAt(t, i) ==
    IF Boundary(t, i) THEN TwoGroupsAt(t, i, {"x", "X"}, TRUE) ELSE NoMatch

\* \b[Ss](\d{1,2})\s*[Ee](\d{1,2})\b anchored at position i
MatchSxxEyyAt(t, i) ==
    IF Boundary(t, i) /\ i <= Len(t) /\ t[i] \in {"S", "s"}
    THEN TwoGroupsAt(t, i + 1, {"E", "e"}, FALSE)
    ELSE NoMatch

\* \b(?:episode|ep)\.?\s*(\d{1,2})\b with re.IGNORECASE, anchored at position i
MatchEpisodeAt(t, i) ==
    LET low == Lower(t)
        rest(j) ==
            LET viaDot == IF j <= Len(t) /\ t[j] = "."
                          THEN DigitsThenBoundary(t, SkipSpaces(t, j + 1))
                          ELSE NoMatch
            IN  IF viaDot # NoMatch THEN viaDot
                ELSE DigitsThenBoundary(t, SkipSpaces(t, j))
        word(w) == IF OccursAt(w, low, i) THEN rest(i + Len(w)) ELSE NoMatch
        long == word(<<"e", "p", "i", "s", "o", "d", "e">>)
        g == IF long # NoMatch THEN long ELSE word(<<"e", "p">>)
    IN  IF Boundary(t, i) /\ g # NoMatch THEN <<g>> ELSE NoMatch

\* the source text of the three regular expressions (pat.pattern)
PatternNxM ==
    <<"\\", "b", "(", "\\", "d", "{", "1", ",", "2", "}", ")", "\\", "s", "*",
      "[", "x", "X", "]", "\\", "s", "*",
      "(", "\\", "d", "{", "1", ",", "2", "}", ")", "\\", "b">>

PatternSxxEyy ==
    <<"\\", "b", "[", "S", "s", "]", "(", "\\", "d", "{", "1", ",", "2", "}", ")",
      "\\", "s", "*", "[", "E", "e", "]",
      "(", "\\", "d", "{", "1", ",", "2", "}", ")", "\\", "b">>

PatternEpisode ==
    <<"\\", "b", "(", "?", ":", "e", "p", "i", "s", "o", "d", "e", "|", "e", "p", ")",
      "\\", ".", "?", "\\", "s", "*",
      "(", "\\", "d", "{", "1", ",", "2", "}", ")", "\\", "b">>

\* a variant of the list with the two season/episode patterns exchanged
EP_PATTERNS_SxxEyyFirst == <<PatternSxxEyy, PatternNxM, PatternEpisode>>

EP_PATTERNS == <<PatternNxM, PatternSxxEyy, PatternEpisode>>

\* the compiled pattern with the given text, anchored at position i
MatchAt(pattern, t, i) ==
    CASE pattern = PatternNxM     -> MatchNxMAt(t, i)
      [] pattern = PatternSxxEyy  -> MatchSxxEyyAt(t, i)
      [] pattern = PatternEpisode -> MatchEpisodeAt(t, i)

\* pat.search(t): the match at the leftmost position that has one
PatternSearch(pattern, t) ==
    LET hits == {i \in 1 .. Len(t) : MatchAt(pattern, t, i) # NoMatch}
    IN  IF hits = {} THEN NoMatch
        ELSE MatchAt(pattern, t, CHOOSE i \in hits : \A j \in hits : i <= j)

\* the test that routes a match to the season/episode branch
IsSeasonEpisodePattern(pattern) ==
    \/ Contains(<<"[", "x", "X", "]">>, Lower(pattern))
    \/ Contains(<<"S", "s">>, pattern)
    \/ Contains(<<"E", "e">>, pattern)

\* a variant of CodeOfMatch that does not pad the episode number
CodeOfMatchUnpadded(pattern, m) ==
    IF IsSeasonEpisodePattern(pattern)
    THEN IntToStr(ToInt(m[1])) \o <<"x">> \o IntToStr(ToInt(m[2]))
    ELSE <<"E">> \o IntToStr(ToInt(m[1]))

\* the value returned for the match m of the pattern with the given text
CodeOfMatch(pattern, m) ==
    IF IsSeasonEpisodePattern(pattern)
    THEN IntToStr(ToInt(m[1])) \o <<"x">> \o ZeroPad2(ToInt(m[2]))
    ELSE <<"E">> \o ZeroPad2(ToInt(m[1]))

RECURSIVE ExtractFrom(_, _)
ExtractFrom(k, t) ==
    IF k > Len(EP_PATTERNS) THEN None
    ELSE LET m == PatternSearch(EP_PATTERNS[k], t)
         IN  IF m = NoMatch THEN ExtractFrom(k + 1, t)
             ELSE CodeOfMatch(EP_PATTERNS[k], m)

extract_episode_code(t) == ExtractFrom(1, t)

\* extract_episode_code is not being called
EpIdle ==
    /\ title = <<>>
    /\ episode_code = None
    /\ ep_pc = "idle"

----------------------------------------------------------------------------
(* HTTP helpers: request_json *)

\* the default of the max_retries parameter
DefaultMaxRetries == 5

\* the cap on one exponential wait, in seconds
MaxBackoff == 60

\* the responses the server may give: a status code, the Retry-After header
\* and the Content-Type header (None for an absent header)
JsonType == <<"A", "p", "p", "l", "i", "c", "a", "t", "i", "o", "n", "/", "J", "S", "O", "N">>
HtmlType == <<"t", "e", "x", "t", "/", "h", "t", "m", "l">>

Responses ==
    [status : {200, 404}, retry_after : {None}, content_type : {JsonType, HtmlType}]
    \cup [status : {429},
          retry_after : {None, <<"1", "2", "0">>, <<"s", "o", "o", "n">>, <<"²">>},
          content_type : {HtmlType}]
    \cup [status : {503}, retry_after : {None, <<"1", "2", "0">>}, content_type : {HtmlType}]

\* the responses the searches of a run are answered with
RunResponses == {r \in Responses : r.retry_after = None}

\* the value of `response` before the first session.get of a call
NoResponse == [status |-> 0, retry_after |-> None, content_type |-> None]

\* the truth value of an optional string: None and "" are false
Truthy(s) == s # None /\ s # <<>>

\* the characters of a header (ISO-8859-1) that str.isdigit() accepts and
\* int() rejects
SuperscriptDigits == {"¹", "²", "³"}

\* str.isdigit() over the characters the headers are built from
IsDigitString(s) ==
    Len(s) > 0 /\ \A i \in DOMAIN s : IsDigit(s[i]) \/ s[i] \in SuperscriptDigits

\* int(s) returns for a string str.isdigit() accepts; it raises ValueError
\* for the others
IntAccepts(s) == \A i \in DOMAIN s : IsDigit(s[i])

\* 2 ** n
RECURSIVE Pow2(_)
Pow2(n) == IF n = 0 THEN 1 ELSE 2 * Pow2(n - 1)

Min(a, b) == IF a <= b THEN a ELSE b

\* a variant of BackoffWait without the cap
BackoffWaitUncapped(n) == Pow2(n)

\* min(60, 2 ** attempt)
BackoffWait(n) == Min(MaxBackoff, Pow2(n))

\* the wait chosen for a 429 response
RateLimitWait(r, n) ==
    IF Truthy(r.retry_after) /\ IsDigitString(r.retry_after)
    THEN ToInt(r.retry_after)
    ELSE BackoffWait(n)

\* a variant of ResponseOutcome that skips the Content-Type test
ResponseOutcomeAnyContentType(r) ==
    IF r.status = 429
    THEN IF Truthy(r.retry_after) /\ IsDigitString(r.retry_after) /\ ~IntAccepts(r.retry_after)
         THEN "ValueError"
         ELSE "retry_429"
    ELSE IF 500 <= r.status /\ r.status < 600 THEN "retry_5xx"
    ELSE IF 400 <= r.status /\ r.status < 600 THEN "HTTPError"
    ELSE "json"

\* what one pass of the loop body does with the response r
ResponseOutcome(r) ==
    IF r.status = 429
    THEN IF Truthy(r.retry_after) /\ IsDigitString(r.retry_after) /\ ~IntAccepts(r.retry_after)
         THEN "ValueError"
         ELSE "retry_429"
    ELSE IF 500 <= r.status /\ r.status < 600 THEN "retry_5xx"
    ELSE IF 400 <= r.status /\ r.status < 600 THEN "HTTPError"
    ELSE IF ~Contains(<<"j", "s", "o", "n">>,
                      Lower(IF Truthy(r.content_type) THEN r.content_type ELSE <<>>))
         THEN "ValueError"
    ELSE "json"

\* request_json is not being called
ReqIdle ==
    /\ max_retries = DefaultMaxRetries
    /\ attempt = 1
    /\ req_pc = "idle"
    /\ req_exc = "none"
    /\ response = NoResponse
    /\ wait = 0
    /\ n_requests = 0

\* entry of request_json with max_retries = m
RequestEntry(m) ==
    /\ max_retries' = m
    /\ attempt' = 1
    /\ req_pc' = "loop"
    /\ req_exc' = "none"
    /\ response' = NoResponse
    /\ wait' = 0
    /\ n_requests' = 0

\* one pass of the for loop: session.get answered by r
RequestAttempt(r) ==
    /\ req_pc = "loop"
    /\ attempt <= max_retries
    /\ response' = r
    /\ n_requests' = n_requests + 1
    /\ LET out == ResponseOutcome(r) IN
        CASE out = "retry_429" ->
                /\ wait' = RateLimitWait(r, attempt)
                /\ attempt' = attempt + 1
                /\ UNCHANGED <<req_pc, req_exc>>
          [] out = "retry_5xx" ->
                /\ wait' = BackoffWait(attempt)
                /\ attempt' = attempt + 1
                /\ UNCHANGED <<req_pc, req_exc>>
          [] out \in {"HTTPError", "ValueError"} ->
                /\ req_pc' = "raised"
                /\ req_exc' = out
                /\ UNCHANGED <<wait, attempt>>
          [] out = "json" ->
                /\ req_pc' = "returned"
                /\ UNCHANGED <<req_exc, wait, attempt>>
    /\ UNCHANGED max_retries

\* one pass of the for loop: session.get raises (no connection, timeout)
RequestFails ==
    /\ req_pc = "loop"
    /\ attempt <= max_retries
    /\ n_requests' = n_requests + 1
    /\ req_pc' = "raised"
    /\ req_exc' = "RequestException"
    /\ UNCHANGED <<max_retries, attempt, response, wait>>

\* the for loop ends without a return: raise RuntimeError
RequestExhausted ==
    /\ req_pc = "loop"
    /\ attempt > max_retries
    /\ req_pc' = "raised"
    /\ req_exc' = "RuntimeError"
    /\ UNCHANGED <<max_retries, attempt, response, wait, n_requests>>

----------------------------------------------------------------------------
(* Sorting: list.sort and sorted, which are stable also with reverse=True *)

\* a < b for two key tuples of integers, compared as Python compares tuples
LexLess(a, b) ==
    \E k \in 1 .. (Min(Len(a), Len(b)) + 1) :
        /\ \A m \in 1 .. (k - 1) : a[m] = b[m]
        /\ IF k <= Min(Len(a), Len(b)) THEN a[k] < b[k]
           ELSE Len(a) < Len(b) /\ k = Len(a) + 1

\* the sequence of indices `done` with the index i inserted behind every index
\* whose key does not have to follow the key of i
InsertIndex(done, i, keys, reverse) ==
    LET after(j) == IF reverse THEN LexLess(keys[j], keys[i]) ELSE LexLess(keys[i], keys[j])
        spots == {k \in 1 .. Len(done) : after(done[k])}
        at == IF spots = {} THEN Len(done) + 1
              ELSE CHOOSE k \in spots : \A m \in spots : k <= m
    IN  SubSeq(done, 1, at - 1) \o <<i>> \o SubSeq(done, at, Len(done))

RECURSIVE SortedIndices(_, _, _)
SortedIndices(n, keys, reverse) ==
    IF n = 0 THEN <<>>
    ELSE InsertIndex(SortedIndices(n - 1, keys, reverse), n, keys, reverse)

\* a variant of StableSort in which equal keys come out in reversed input order
UnstableSort(items, keys, reverse) ==
    LET n == Len(items)
        rev == [k \in 1 .. n |-> n + 1 - k]
        perm == SortedIndices(n, [k \in 1 .. n |-> keys[rev[k]]], reverse)
    IN  [k \in 1 .. n |-> items[rev[perm[k]]]]

\* items ordered by keys (keys[k] is the key of items[k]); equal keys keep
\* their input order, ascending or with reverse=True
StableSort(items, keys, reverse) ==
    LET perm == SortedIndices(Len(items), keys, reverse)
    IN  [k \in 1 .. Len(items) |-> items[perm[k]]]

----------------------------------------------------------------------------
(* Show configuration and trailer detection *)

SHOW_NAME == <<"S", "F", "A">>

SUBREDDITS == <<"television", "startrek">>

\* query terms may carry double quotes
QUERY_TERMS == << <<"\"", "S", "F", "A", "\"">>, <<"T", "r", "e", "k">> >>

OTHER_POSTS_N == 5

TRAILER_KEYWORDS ==
    << <<"o", "f", "f", "i", "c", "i", "a", "l", " ", "t", "r", "a", "i", "l", "e", "r">>,
       <<"t", "e", "a", "s", "e", "r", " ", "t", "r", "a", "i", "l", "e", "r">>,
       <<"t", "r", "a", "i", "l", "e", "r">>,
       <<"t", "e", "a", "s", "e", "r">> >>

\* q.strip('"')
RECURSIVE StripQuotes(_)
StripQuotes(q) ==
    IF Len(q) > 0 /\ q[1] = "\"" THEN StripQuotes(Tail(q))
    ELSE IF Len(q) > 0 /\ q[Len(q)] = "\"" THEN StripQuotes(SubSeq(q, 1, Len(q) - 1))
    ELSE q

looks_like_trailer(ttl) ==
    LET t == Lower(IF Truthy(ttl) THEN ttl ELSE <<>>)
        show_hit ==
            \/ Contains(Lower(SHOW_NAME), t)
            \/ \E k \in DOMAIN QUERY_TERMS :
                    /\ Truthy(QUERY_TERMS[k])
                    /\ Contains(Lower(StripQuotes(QUERY_TERMS[k])), t)
    IN  IF ~show_hit THEN FALSE
        ELSE \E k \in DOMAIN TRAILER_KEYWORDS : Contains(TRAILER_KEYWORDS[k], t)

----------------------------------------------------------------------------
(* Selection logic: pick_trailer, episode_posts, pick_other_posts *)

\* the value of a missing pick
NoPost == [id |-> "<None>"]

\* the truth value of p.episode_code
HasEpisodeCode(p) == Truthy(p.episode_code)

\* [p for p in ps if keep(p)] for a set of kept indices
RECURSIVE FilterSeq(_, _)
FilterSeq(ps, keep) ==
    IF ps = <<>> THEN <<>>
    ELSE LET rest == FilterSeq(SubSeq(ps, 1, Len(ps) - 1), keep)
         IN  IF Len(ps) \in keep THEN Append(rest, ps[Len(ps)]) ELSE rest

\* the key (p.num_comments, p.score)
DiscussionKeys(ps) == [k \in DOMAIN ps |-> <<ps[k].num_comments, ps[k].score>>]

pick_trailer(ps) ==
    LET trailers == FilterSeq(ps, {k \in DOMAIN ps : ps[k].is_trailer})
    IN  IF trailers = <<>> THEN NoPost
        ELSE StableSort(trailers, DiscussionKeys(trailers), TRUE)[1]

\* the characters of an episode code in the order of their code points
CodeChars == <<"0", "1", "2", "3", "4", "5", "6", "7", "8", "9", "E", "x">>

\* a string as the tuple of the ranks of its characters
CodePoints(str) ==
    [k \in DOMAIN str |-> CHOOSE c \in DOMAIN CodeChars : CodeChars[c] = str[k]]

\* the key (p.episode_code or "", p.created_utc); the 0 ends the string, so
\* that a prefix sorts first and the timestamps are compared for equal codes
EpisodeKeys(ps) ==
    [k \in DOMAIN ps |->
        CodePoints(IF HasEpisodeCode(ps[k]) THEN ps[k].episode_code ELSE <<>>)
            \o <<0, ps[k].created_utc>>]

episode_posts(ps) ==
    LET eps == FilterSeq(ps, {k \in DOMAIN ps : HasEpisodeCode(ps[k])})
    IN  StableSort(eps, EpisodeKeys(eps), FALSE)

\* candidates[:n]
Slice(seq, n) ==
    IF n >= 0 THEN SubSeq(seq, 1, Min(n, Len(seq)))
    ELSE SubSeq(seq, 1, Len(seq) + n)

\* a variant of pick_other_posts that leaves the trailers among the candidates
pick_other_posts_with_trailers(ps, n) ==
    LET candidates == FilterSeq(ps, {k \in DOMAIN ps : ~HasEpisodeCode(ps[k])})
    IN  Slice(StableSort(candidates, DiscussionKeys(candidates), TRUE), n)

pick_other_posts(ps, n) ==
    LET candidates ==
            FilterSeq(ps, {k \in DOMAIN ps : ~HasEpisodeCode(ps[k]) /\ ~ps[k].is_trailer})
    IN  Slice(StableSort(candidates, DiscussionKeys(candidates), TRUE), n)

\* main: the trailer, if any, followed by the other posts
SelectedPosts(picked, rest) ==
    (IF picked # NoPost THEN <<picked>> ELSE <<>>) \o rest

\* the selection is not being made
SelIdle ==
    /\ sel_posts = <<>>
    /\ sel_n = OTHER_POSTS_N
    /\ trailer = NoPost
    /\ others = <<>>
    /\ selected = <<>>
    /\ sel_pc = "idle"

----------------------------------------------------------------------------
(* Reddit fetch: fetch_search_posts *)

\* norm_spaces: runs of whitespace become one space, the ends are stripped
RECURSIVE CollapseSpaces(_)
CollapseSpaces(str) ==
    IF Len(str) < 2 THEN str
    ELSE IF IsSpace(str[1]) /\ IsSpace(str[2]) THEN CollapseSpaces(Tail(str))
    ELSE <<str[1]>> \o CollapseSpaces(Tail(str))

norm_spaces(str) ==
    LET c == CollapseSpaces(IF Truthy(str) THEN str ELSE <<>>)
        l == IF Len(c) > 0 /\ IsSpace(c[1]) THEN Tail(c) ELSE c
    IN  IF Len(l) > 0 /\ IsSpace(l[Len(l)]) THEN SubSeq(l, 1, Len(l) - 1) ELSE l

\* titles the search may return
TitleEpisode == <<"S", "F", "A", " ", "S", "0", "1", "E", "2">>
TitleTrailer == <<"T", "r", "e", "k", " ", " ", "T", "e", "a", "s", "e", "r">>

\* the children a search response may carry: ch["data"] with its id (None when
\* the key is missing), title, created_utc, score and num_comments; the name
\* and subreddit keys are missing
ChildUniverse ==
    { [id |-> "a", title |-> TitleEpisode, created_utc |-> 10, score |-> 3, num_comments |-> 1],
      [id |-> "a", title |-> TitleEpisode, created_utc |-> 10, score |-> 4, num_comments |-> 2],
      [id |-> "b", title |-> TitleTrailer, created_utc |-> 20, score |-> 1, num_comments |-> 1],
      [id |-> "<None>", title |-> TitleTrailer, created_utc |-> 30, score |-> 1, num_comments |-> 1] }

PostIds == {"a", "b"}

\* `not pid`
MissingId(pid) == pid = "" \/ pid = "<None>"

\* the (subreddit, term) pairs in the order of the two nested loops
Pairs ==
    [k \in 1 .. (Len(SUBREDDITS) * Len(QUERY_TERMS)) |->
        << ((k - 1) \div Len(QUERY_TERMS)) + 1, ((k - 1) % Len(QUERY_TERMS)) + 1 >>]

\* Post(...) built from the child data d of a search of the subreddit sr
MakePost(d, sr) ==
    [ id |-> d.id,
      name |-> <<"t3_", d.id>>,
      subreddit |-> sr,
      created_utc |-> d.created_utc,
      title |-> norm_spaces(d.title),
      score |-> d.score,
      num_comments |-> d.num_comments,
      episode_code |-> extract_episode_code(d.title),
      is_trailer |-> looks_like_trailer(d.title) ]

\* MakePost tabulated over the children and subreddits of the model
PostOf == [d \in ChildUniverse |-> [sr \in Range(SUBREDDITS) |-> MakePost(d, sr)]]

\* a variant of AddChildren in which a repeated id replaces the kept post
RECURSIVE AddChildrenKeepLast(_, _, _)
AddChildrenKeepLast(acc, children, sr) ==
    IF children = <<>> THEN acc
    ELSE LET d == Head(children)
             kept == FilterSeq(acc.posts, {k \in DOMAIN acc.posts : acc.posts[k].id # d.id})
         IN  IF MissingId(d.id) THEN AddChildrenKeepLast(acc, Tail(children), sr)
             ELSE AddChildrenKeepLast(
                    [posts |-> Append(kept, PostOf[d][sr]),
                     seen |-> acc.seen \cup {d.id}],
                    Tail(children), sr)

\* the loop over the children of one response: acc holds posts and seen_ids
RECURSIVE AddChildren(_, _, _)
AddChildren(acc, children, sr) ==
    IF children = <<>> THEN acc
    ELSE LET d == Head(children)
         IN  IF MissingId(d.id) \/ d.id \in acc.seen
             THEN AddChildren(acc, Tail(children), sr)
             ELSE AddChildren(
                    [posts |-> Append(acc.posts, PostOf[d][sr]),
                     seen |-> acc.seen \cup {d.id}],
                    Tail(children), sr)

\* posts.sort(key=lambda p: p.created_utc, reverse=True)
NewestFirst(ps) == StableSort(ps, [k \in DOMAIN ps |-> <<ps[k].created_utc>>], TRUE)

\* no child seen yet
NoChild == [id |-> "<None>"]

\* what first_seen records of the child d returned by a search of subreddit sr
SeenAs(d, sr) ==
    [id |-> d.id, score |-> d.score, num_comments |-> d.num_comments, subreddit |-> sr]

\* first_seen after the children of the response to a search of subreddit sr
RECURSIVE NoteFirstSeen(_, _, _)
NoteFirstSeen(fs, children, sr) ==
    IF children = <<>> THEN fs
    ELSE LET d == Head(children)
         IN  NoteFirstSeen(
                IF d.id \in PostIds /\ fs[d.id] = NoChild
                THEN [fs EXCEPT ![d.id] = SeenAs(d, sr)] ELSE fs,
                Tail(children), sr)

\* some child comes with an id seen before but with other data than the first
RepeatsDifferently(fs, children, sr) ==
    \E k \in DOMAIN children :
        LET d == children[k]
            before == NoteFirstSeen(fs, SubSeq(children, 1, k - 1), sr)
        IN  /\ d.id \in PostIds
            /\ before[d.id] # NoChild
            /\ before[d.id] # SeenAs(d, sr)

----------------------------------------------------------------------------
(* Files *)

NeverWritten == [by |-> 0, rows |-> <<>>]

NoHistoryFile == [exists |-> FALSE, lines |-> <<>>]

\* csv.DictWriter.writeheader on the history file
HeaderLine ==
    [ kind |-> "header", snapshot_utc |-> 0, post_id |-> "", post_name |-> <<>>,
      episode_code |-> <<>>, is_episode |-> "", is_trailer |-> "", num_comments |-> <<>> ]

\* the row append_history writes for the post p, as csv writes its values
HistoryRow(snap, p) ==
    [ kind |-> "row",
      snapshot_utc |-> snap,
      post_id |-> p.id,
      post_name |-> p.name,
      episode_code |-> IF HasEpisodeCode(p) THEN p.episode_code ELSE <<>>,
      is_episode |-> IF HasEpisodeCode(p) THEN "1" ELSE "0",
      is_trailer |-> IF p.is_trailer THEN "1" ELSE "0",
      num_comments |-> IntToStr(p.num_comments) ]

\* ensure_history_header: the file is created, holding the header, only when
\* it does not exist
ensure_history_header(h) ==
    IF h.exists THEN h ELSE [exists |-> TRUE, lines |-> <<HeaderLine>>]

\* a variant of append_history that rewrites the file with the run's rows
append_history_truncating(h, snap, ps) ==
    [ exists |-> TRUE,
      lines |-> <<HeaderLine>> \o [k \in DOMAIN ps |-> HistoryRow(snap, ps[k])] ]

\* append_history: the file opened in append mode, one row per post
append_history(h, snap, ps) ==
    LET e == ensure_history_header(h)
    IN  [e EXCEPT !.lines = @ \o [k \in DOMAIN ps |-> HistoryRow(snap, ps[k])]]

\* the ids of a list of posts, as the rows of a CSV export
IdsOf(ps) == [k \in DOMAIN ps |-> ps[k].id]

\* the value of parse_dt for a text datetime.fromisoformat rejects
NoTime == 0

\* parse_dt: the snapshot times are numbered from 1 in the order of the
\* clock; any other text of the column is not an ISO timestamp
parse_dt(str) == IF str \in Nat /\ str >= 1 THEN str ELSE NoTime

\* safe_int over the texts of the num_comments column: int() of a decimal
\* number, the default for what int() rejects
safe_int(str, default) ==
    IF str # None /\ Len(str) > 0 /\ IntAccepts(str) THEN ToInt(str) ELSE default

\* csv.DictReader: the rows below the header
history_rows(h) == FilterSeq(h.lines, {k \in DOMAIN h.lines : h.lines[k].kind = "row"})

\* the keys of by_post: the post names of the rows whose snapshot time parses
PostNames(h) ==
    LET rows == history_rows(h)
    IN  {rows[k].post_name : k \in {j \in DOMAIN rows : parse_dt(rows[j].snapshot_utc) # NoTime}}

\* by_post[n] before the sort: (dt, num_comments, row) for the rows of the post
\* name n whose snapshot time parses, in the order of the file
Points(h, n) ==
    LET rows == history_rows(h)
        own == FilterSeq(rows, {k \in DOMAIN rows :
                                    /\ parse_dt(rows[k].snapshot_utc) # NoTime
                                    /\ rows[k].post_name = n})
    IN  [k \in DOMAIN own |->
            [dt |-> parse_dt(own[k].snapshot_utc),
             num_comments |-> safe_int(own[k].num_comments, 0),
             row |-> own[k]]]

\* a variant of SeriesOf that leaves the points in the order of the file
SeriesOfUnsorted(h, n) == Points(h, n)

\* by_post[n] after by_post[k].sort(key=lambda x: x[0])
SeriesOf(h, n) ==
    LET pts == Points(h, n)
    IN  StableSort(pts, [k \in DOMAIN pts |-> <<pts[k].dt>>], FALSE)

\* make_plots: the post names whose series starts with a row of the given
\* is_episode class
SeriesNames(h, episode) ==
    {n \in PostNames(h) : (SeriesOf(h, n)[1].row.is_episode = "1") = episode}

\* the lines of one plot: x and y of every series of the class
SeriesDrawn(h, episode) ==
    [n \in SeriesNames(h, episode) |->
        [k \in DOMAIN SeriesOf(h, n) |->
            <<SeriesOf(h, n)[k].dt, SeriesOf(h, n)[k].num_comments>>]]

----------------------------------------------------------------------------
(* main, run after run *)

\* no run has been made
RunIdle ==
    /\ pc = "idle"
    /\ snapshot = 0
    /\ pos = 0
    /\ posts = <<>>
    /\ seen_ids = {}
    /\ searches = [k \in DOMAIN Pairs |-> 0]
    /\ first_seen = [i \in PostIds |-> NoChild]
    /\ repeated = FALSE
    /\ all_csv = NeverWritten
    /\ eps_csv = NeverWritten
    /\ sel_csv = NeverWritten
    /\ history = NoHistoryFile
    /\ episode_png = NeverWritten
    /\ non_episode_png = NeverWritten
    /\ dashboard = NeverWritten
    /\ failed_runs = {}

MaxRuns == 2

MaxChildren == 2

\* the lists of children one response may carry
RECURSIVE ChildLists(_)
ChildLists(n) ==
    IF n = 0 THEN {<<>>}
    ELSE LET shorter == ChildLists(n - 1)
         IN  shorter \cup {Append(c, d) : c \in shorter, d \in ChildUniverse}

\* the bodies a search may return
Bodies == ChildLists(MaxChildren)

\* the script is started: snapshot = utc_now_iso(), then fetch_search_posts up
\* to its first request_json call
StartRun ==
    /\ pc \in {"idle", "done", "failed", "failed_plots", "failed_dashboard"}
    /\ snapshot < MaxRuns
    /\ snapshot' = snapshot + 1
    /\ posts' = <<>>
    /\ seen_ids' = {}
    /\ first_seen' = [i \in PostIds |-> NoChild]
    /\ repeated' = FALSE
    /\ IF Len(Pairs) = 0
       THEN /\ pc' = "write_all"
            /\ pos' = 0
            /\ searches' = [k \in DOMAIN Pairs |-> 0]
            /\ UNCHANGED reqVars
       ELSE /\ pc' = "fetch"
            /\ pos' = 1
            /\ searches' = [k \in DOMAIN Pairs |-> IF k = 1 THEN 1 ELSE 0]
            /\ RequestEntry(DefaultMaxRetries)
    /\ UNCHANGED <<fileVars, failed_runs>>

\* request_json returned data: the children are added, then the next search
\* is issued or, after the last pair, the posts are sorted and returned
ProcessChildren(children) ==
    /\ pc = "fetch"
    /\ req_pc = "returned"
    /\ LET acc == AddChildren([posts |-> posts, seen |-> seen_ids], children,
                              SUBREDDITS[Pairs[pos][1]])
       IN  /\ seen_ids' = acc.seen
           /\ first_seen' = NoteFirstSeen(first_seen, children, SUBREDDITS[Pairs[pos][1]])
           /\ repeated' = (repeated \/ RepeatsDifferently(first_seen, children,
                                                           SUBREDDITS[Pairs[pos][1]]))
           /\ IF pos < Len(Pairs)
              THEN /\ posts' = acc.posts
                   /\ pos' = pos + 1
                   /\ searches' = [searches EXCEPT ![pos + 1] = @ + 1]
                   /\ RequestEntry(DefaultMaxRetries)
                   /\ UNCHANGED pc
              ELSE /\ posts' = NewestFirst(acc.posts)
                   /\ pc' = "write_all"
                   /\ req_pc' = "idle"
                   /\ attempt' = 1
                   /\ response' = NoResponse
                   /\ wait' = 0
                   /\ n_requests' = 0
                   /\ UNCHANGED <<pos, searches, max_retries, req_exc>>
    /\ UNCHANGED <<snapshot, fileVars, failed_runs>>

\* a variant of RunFails that writes the posts collected so far before failing
RunFailsAfterWritingAllCsv ==
    /\ pc = "fetch"
    /\ req_pc = "raised"
    /\ pc' = "failed"
    /\ failed_runs' = failed_runs \cup {snapshot}
    /\ all_csv' = [by |-> snapshot, rows |-> IdsOf(posts)]
    /\ UNCHANGED <<snapshot, fetchVars, eps_csv, sel_csv, history, episode_png,
                   non_episode_png, dashboard, reqVars>>

\* request_json raised: the exception leaves fetch_search_posts and main and
\* is logged by the __main__ guard
RunFails ==
    /\ pc = "fetch"
    /\ req_pc = "raised"
    /\ pc' = "failed"
    /\ failed_runs' = failed_runs \cup {snapshot}
    /\ UNCHANGED <<snapshot, fetchVars, fileVars, reqVars>>

WriteAllCsv ==
    /\ pc = "write_all"
    /\ all_csv' = [by |-> snapshot, rows |-> IdsOf(posts)]
    /\ pc' = "write_eps"
    /\ UNCHANGED <<snapshot, fetchVars, eps_csv, sel_csv, history, episode_png,
                   non_episode_png, dashboard, failed_runs, reqVars>>

WriteEpisodeCsv ==
    /\ pc = "write_eps"
    /\ eps_csv' = [by |-> snapshot, rows |-> IdsOf(episode_posts(posts))]
    /\ pc' = "write_sel"
    /\ UNCHANGED <<snapshot, fetchVars, all_csv, sel_csv, history, episode_png,
                   non_episode_png, dashboard, failed_runs, reqVars>>

WriteSelectedCsv ==
    /\ pc = "write_sel"
    /\ sel_csv' = [by |-> snapshot,
                   rows |-> IdsOf(SelectedPosts(pick_trailer(posts),
                                                pick_other_posts(posts, OTHER_POSTS_N)))]
    /\ pc' = "append"
    /\ UNCHANGED <<snapshot, fetchVars, all_csv, eps_csv, history, episode_png,
                   non_episode_png, dashboard, failed_runs, reqVars>>

AppendHistory ==
    /\ pc = "append"
    /\ history' = append_history(history, snapshot, posts)
    /\ pc' = "plots"
    /\ UNCHANGED <<snapshot, fetchVars, all_csv, eps_csv, sel_csv, episode_png,
                   non_episode_png, dashboard, failed_runs, reqVars>>

MakePlots ==
    /\ pc = "plots"
    /\ episode_png' =
            IF history.exists /\ SeriesNames(history, TRUE) # {}
            THEN [by |-> snapshot, rows |-> SeriesDrawn(history, TRUE)]
            ELSE episode_png
    /\ non_episode_png' =
            IF history.exists /\ SeriesNames(history, FALSE) # {}
            THEN [by |-> snapshot, rows |-> SeriesDrawn(history, FALSE)]
            ELSE non_episode_png
    /\ pc' = "dashboard"
    /\ UNCHANGED <<snapshot, fetchVars, all_csv, eps_csv, sel_csv, history,
                   dashboard, failed_runs, reqVars>>

\* a variant of PlotsFail for a main that writes the dashboard before it plots
PlotsFailDashboardWritten ==
    /\ pc = "plots"
    /\ pc' = "failed_plots"
    /\ failed_runs' = failed_runs \cup {snapshot}
    /\ dashboard' = [by |-> snapshot, rows |-> IdsOf(posts)]
    /\ UNCHANGED <<snapshot, fetchVars, all_csv, eps_csv, sel_csv, history,
                   episode_png, non_episode_png, reqVars>>

\* make_plots raises, either before the first savefig (matplotlib missing, the
\* history file unreadable) or in the second plot, the episode plot being
\* saved; the exception leaves main and is logged by the __main__ guard
PlotsFail ==
    /\ pc = "plots"
    /\ pc' = "failed_plots"
    /\ failed_runs' = failed_runs \cup {snapshot}
    /\ \/ UNCHANGED episode_png
       \/ /\ history.exists /\ SeriesNames(history, TRUE) # {}
          /\ episode_png' = [by |-> snapshot, rows |-> SeriesDrawn(history, TRUE)]
    /\ UNCHANGED <<snapshot, fetchVars, all_csv, eps_csv, sel_csv, history,
                   non_episode_png, dashboard, reqVars>>

\* DASHBOARD_HTML opened with mode "w" by the run `by` and not written to the end
TruncatedFile(by) == [by |-> by, rows |-> <<>>]

\* write_dashboard_html raises, either while the page is put together, before
\* the file is opened, or while the opened file is written; the exception
\* leaves main and is logged by the __main__ guard
DashboardFails ==
    /\ pc = "dashboard"
    /\ pc' = "failed_dashboard"
    /\ failed_runs' = failed_runs \cup {snapshot}
    /\ \/ UNCHANGED dashboard
       \/ dashboard' = TruncatedFile(snapshot)
    /\ UNCHANGED <<snapshot, fetchVars, all_csv, eps_csv, sel_csv, history,
                   episode_png, non_episode_png, reqVars>>

WriteDashboard ==
    /\ pc = "dashboard"
    /\ dashboard' = [by |-> snapshot, rows |-> IdsOf(posts)]
    /\ pc' = "done"
    /\ UNCHANGED <<snapshot, fetchVars, all_csv, eps_csv, sel_csv, history,
                   episode_png, non_episode_png, failed_runs, reqVars>>

InitRun ==
    /\ EpIdle
    /\ ReqIdle
    /\ RunIdle
    /\ SelIdle

NextRun ==
    \/ StartRun /\ UNCHANGED <<epVars, selVars>>
    \/ \E r \in RunResponses : RequestAttempt(r) /\ UNCHANGED <<epVars, runVars, selVars>>
    \/ RequestFails /\ UNCHANGED <<epVars, runVars, selVars>>
    \/ RequestExhausted /\ UNCHANGED <<epVars, runVars, selVars>>
    \/ \E c \in Bodies : ProcessChildren(c) /\ UNCHANGED <<epVars, selVars>>
    \/ RunFails /\ UNCHANGED <<epVars, selVars>>
    \/ WriteAllCsv /\ UNCHANGED <<epVars, selVars>>
    \/ WriteEpisodeCsv /\ UNCHANGED <<epVars, selVars>>
    \/ WriteSelectedCsv /\ UNCHANGED <<epVars, selVars>>
    \/ AppendHistory /\ UNCHANGED <<epVars, selVars>>
    \/ MakePlots /\ UNCHANGED <<epVars, selVars>>
    \/ WriteDashboard /\ UNCHANGED <<epVars, selVars>>

SpecRun == InitRun /\ [][NextRun]_vars

----------------------------------------------------------------------------
(* main, run after run, with failures of make_plots and write_dashboard_html *)

\* the responses of the searches: JSON listings
ListingResponses == {r \in RunResponses : ResponseOutcome(r) = "json"}

\* the lists of children of the listings: at most one child
ListingBodies == {c \in Bodies : Len(c) <= 1}

InitLate == InitRun

NextLate ==
    \/ StartRun /\ UNCHANGED <<epVars, selVars>>
    \/ \E r \in ListingResponses : RequestAttempt(r) /\ UNCHANGED <<epVars, runVars, selVars>>
    \/ \E c \in ListingBodies : ProcessChildren(c) /\ UNCHANGED <<epVars, selVars>>
    \/ WriteAllCsv /\ UNCHANGED <<epVars, selVars>>
    \/ WriteEpisodeCsv /\ UNCHANGED <<epVars, selVars>>
    \/ WriteSelectedCsv /\ UNCHANGED <<epVars, selVars>>
    \/ AppendHistory /\ UNCHANGED <<epVars, selVars>>
    \/ MakePlots /\ UNCHANGED <<epVars, selVars>>
    \/ PlotsFail /\ UNCHANGED <<epVars, selVars>>
    \/ WriteDashboard /\ UNCHANGED <<epVars, selVars>>
    \/ DashboardFails /\ UNCHANGED <<epVars, selVars>>

SpecLate == InitLate /\ [][NextLate]_vars

----------------------------------------------------------------------------
(* The episode matcher applied to bounded titles *)

MaxTitlePieces == 3

TitlePieces ==
    { <<"S">>, <<"e">>, <<"x">>, <<"E", "p">>,
      <<"e", "p", "i", "s", "o", "d", "e">>,
      <<" ">>, <<".">>, <<"0">>, <<"1">>,
      <<"2", "X", "0", "3">>, <<"s", "0", "1", "E", "2">> }

RECURSIVE TitlesOf(_)
TitlesOf(n) ==
    IF n = 0 THEN {<<>>}
    ELSE LET shorter == TitlesOf(n - 1)
         IN  shorter \cup {p \o q : p \in shorter, q \in TitlePieces}

Titles == TitlesOf(MaxTitlePieces)

InitEp ==
    /\ title \in Titles
    /\ episode_code = None
    /\ ep_pc = "call"
    /\ ReqIdle
    /\ RunIdle
    /\ SelIdle

ExtractEpisodeCode ==
    /\ ep_pc = "call"
    /\ episode_code' = extract_episode_code(title)
    /\ ep_pc' = "returned"
    /\ UNCHANGED <<title, reqVars, runVars, selVars>>

NextEp == ExtractEpisodeCode

SpecEp == InitEp /\ [][NextEp]_vars

----------------------------------------------------------------------------
(* request_json called with a bounded max_retries *)

MaxMaxRetries == 7

InitReq ==
    /\ EpIdle
    /\ RunIdle
    /\ SelIdle
    /\ max_retries \in 0 .. MaxMaxRetries
    /\ attempt = 1
    /\ req_pc = "loop"
    /\ req_exc = "none"
    /\ response = NoResponse
    /\ wait = 0
    /\ n_requests = 0

NextReq ==
    \/ \E r \in Responses : RequestAttempt(r) /\ UNCHANGED <<epVars, runVars, selVars>>
    \/ RequestFails /\ UNCHANGED <<epVars, runVars, selVars>>
    \/ RequestExhausted /\ UNCHANGED <<epVars, runVars, selVars>>

SpecReq == InitReq /\ [][NextReq]_vars

----------------------------------------------------------------------------
(* The selection of main applied to bounded lists of posts *)

MaxSelPosts == 3

MaxOtherN == 2

\* what a post may look like to the selectors
PostShapes ==
    [ is_trailer : BOOLEAN,
      episode_code : {None, <<"E", "0", "2">>},
      num_comments : 1 .. 2,
      score : 1 .. 2 ]

\* the post of shape sh that has the id i
ShapedPost(i, sh) ==
    [ id |-> i, is_trailer |-> sh.is_trailer, episode_code |-> sh.episode_code,
      num_comments |-> sh.num_comments, score |-> sh.score ]

\* lists of at most n posts; posts come out of fetch_search_posts with
\* pairwise different ids
RECURSIVE PostLists(_)
PostLists(n) ==
    IF n = 0 THEN {<<>>}
    ELSE LET shorter == PostLists(n - 1)
         IN  shorter \cup {Append(l, ShapedPost(Len(l) + 1, sh)) :
                                l \in {m \in shorter : Len(m) = n - 1}, sh \in PostShapes}

InitSel ==
    /\ EpIdle
    /\ ReqIdle
    /\ RunIdle
    /\ sel_posts \in PostLists(MaxSelPosts)
    /\ sel_n \in 0 .. MaxOtherN
    /\ trailer = NoPost
    /\ others = <<>>
    /\ selected = <<>>
    /\ sel_pc = "call"

\* main: trailer, others and selected
SelectPosts ==
    /\ sel_pc = "call"
    /\ trailer' = pick_trailer(sel_posts)
    /\ others' = pick_other_posts(sel_posts, sel_n)
    /\ selected' = SelectedPosts(pick_trailer(sel_posts), pick_other_posts(sel_posts, sel_n))
    /\ sel_pc' = "done"
    /\ UNCHANGED <<sel_posts, sel_n, epVars, reqVars, runVars>>

NextSel == SelectPosts

SpecSel == InitSel /\ [][NextSel]_vars

----------------------------------------------------------------------------
(* make_plots applied to bounded history files *)

MaxHistoryRows == 3

\* the rows a history file may hold: written by runs at the times 1 and 2, or
\* with a snapshot_utc that is no timestamp
RowShapes ==
    [ kind : {"row"},
      snapshot_utc : {NoTime, 1, 2},
      post_id : {""},
      post_name : {<<"t3_", "a">>},
      episode_code : {<<>>},
      is_episode : {"0", "1"},
      is_trailer : {"0"},
      num_comments : {<<"1">>, <<"2">>} ]
    \cup
    [ kind : {"row"},
      snapshot_utc : {NoTime, 1, 2},
      post_id : {""},
      post_name : {<<"t3_", "b">>},
      episode_code : {<<>>},
      is_episode : {"0"},
      is_trailer : {"0"},
      num_comments : {<<"1">>} ]

\* the history files of a header and at most n rows
RECURSIVE HistoryFiles(_)
HistoryFiles(n) ==
    IF n = 0 THEN {[exists |-> TRUE, lines |-> <<HeaderLine>>]}
    ELSE LET shorter == HistoryFiles(n - 1)
         IN  shorter \cup {[h EXCEPT !.lines = Append(@, r)] :
                                h \in {g \in shorter : Len(g.lines) = n}, r \in RowShapes}

InitPlot ==
    /\ EpIdle
    /\ ReqIdle
    /\ SelIdle
    /\ pc = "plots"
    /\ snapshot = 1
    /\ pos = 0
    /\ posts = <<>>
    /\ seen_ids = {}
    /\ searches = [k \in DOMAIN Pairs |-> 0]
    /\ first_seen = [i \in PostIds |-> NoChild]
    /\ repeated = FALSE
    /\ all_csv = NeverWritten
    /\ eps_csv = NeverWritten
    /\ sel_csv = NeverWritten
    /\ history \in HistoryFiles(MaxHistoryRows)
    /\ episode_png = NeverWritten
    /\ non_episode_png = NeverWritten
    /\ dashboard = NeverWritten
    /\ failed_runs = {}

NextPlot == MakePlots /\ UNCHANGED <<epVars, selVars>>

SpecPlot == InitPlot /\ [][NextPlot]_vars

----------------------------------------------------------------------------
(* Properties of extract_episode_code *)

\* t[a .. b] holds only whitespace
AllSpaces(t, a, b) == \A k \in a .. b : IsSpace(t[k])

\* the pairs of digit strings of every occurrence in t of
\* <1-2 digits> <sep> <1-2 digits> delimited by word boundaries; lead is the
\* letter class that must precede the first digit string ({} for none)
TwoNumberForms(t, lead, sepChars, gapAfter) ==
    UNION { LET d == IF lead = {} THEN i ELSE i + 1 IN
            UNION { UNION { UNION { { <<Sub(t, d, n1), Sub(t, k, n2)>> :
                n2 \in {n \in 1 .. 2 : DigitsAt(t, k, n) /\ Boundary(t, k + n)} } :
                k \in {q \in (j + 1) .. (IF gapAfter THEN Len(t) ELSE j + 1) :
                            AllSpaces(t, j + 1, q - 1)} } :
                j \in {q \in (d + n1) .. Len(t) :
                            AllSpaces(t, d + n1, q - 1) /\ t[q] \in sepChars} } :
                n1 \in {n \in 1 .. 2 : DigitsAt(t, d, n)} } :
            i \in {q \in 1 .. Len(t) : Boundary(t, q) /\ (lead # {} => t[q] \in lead)} }

\* the <digits>x<digits> forms of t
NxMForms(t) == TwoNumberForms(t, {}, {"x", "X"}, TRUE)

\* the S<digits>E<digits> forms of t
SxxEyyForms(t) == TwoNumberForms(t, {"S", "s"}, {"E", "e"}, FALSE)

\* the numbers of the "Episode N" / "Ep N" / "Ep. N" forms of t
EpisodeForms(t) ==
    LET low == Lower(t) IN
    UNION { UNION { UNION { UNION { { Sub(t, k, n) :
        n \in {m \in 1 .. 2 : DigitsAt(t, k, m) /\ Boundary(t, k + m)} } :
        k \in {q \in (i + Len(w) + dot) .. Len(t) : AllSpaces(t, i + Len(w) + dot, q - 1)} } :
        dot \in {b \in 0 .. 1 : b = 1 => (i + Len(w) <= Len(t) /\ t[i + Len(w)] = ".")} } :
        w \in {v \in {<<"e", "p", "i", "s", "o", "d", "e">>, <<"e", "p">>} : OccursAt(v, low, i)} } :
        i \in {q \in 1 .. Len(t) : Boundary(t, q)} }

HasNxM(t) == NxMForms(t) # {}
HasSxxEyy(t) == SxxEyyForms(t) # {}
HasEpisode(t) == EpisodeForms(t) # {}

\* a one- or two-digit string written as an integer without padding
Unpadded(d) == IF Len(d) = 2 /\ d[1] = "0" THEN <<d[2]>> ELSE d

\* a one- or two-digit string written with two digits
TwoDigits(d) == IF Len(d) = 1 THEN <<"0">> \o d ELSE d

\* "<season>x<episode>" and "E<episode>"
SeasonEpisodeCode(s, e) == Unpadded(s) \o <<"x">> \o TwoDigits(e)
EpisodeOnlyCode(n) == <<"E">> \o TwoDigits(n)

\* C1: a title with an S<season>E<episode> form and no <digits>x<digits> form
\* yields "<season>x<episode>", season unpadded, episode padded to two digits
C1_SxxEyyGivesSeasonEpisode ==
    (ep_pc = "returned" /\ HasSxxEyy(title) /\ ~HasNxM(title))
        => \E f \in SxxEyyForms(title) : episode_code = SeasonEpisodeCode(f[1], f[2])

C1_Witness ==
    /\ ep_pc = "returned"
    /\ title = <<".", "s", "0", "1", "E", "2", " ">>
    /\ HasSxxEyy(title) /\ ~HasNxM(title)
    /\ episode_code = <<"1", "x", "0", "2">>

\* C2: a title with a <season>x<episode> form yields "<season>x<episode>",
\* the episode padded to two digits, not an episode-only code
C2_NxMGivesSeasonEpisode ==
    (ep_pc = "returned" /\ HasNxM(title))
        => \E f \in NxMForms(title) : episode_code = SeasonEpisodeCode(f[1], f[2])

\* the codes a matched two-number form can be rendered as
FormCodes(s, e) == {SeasonEpisodeCode(s, e), EpisodeOnlyCode(s)}

\* C3: only the "Episode N" form gives "E<NN>"; None exactly when no pattern
\* matches; the first matching pattern in the order NxM, SxxEyy, Episode N
\* decides the result, wherever in the title it matches
C3_OrderAndEpisodeOnly ==
    ep_pc = "returned" =>
        /\ (episode_code = None) <=>
                (~HasNxM(title) /\ ~HasSxxEyy(title) /\ ~HasEpisode(title))
        /\ HasNxM(title) =>
                (\E f \in NxMForms(title) : episode_code \in FormCodes(f[1], f[2]))
        /\ (~HasNxM(title) /\ HasSxxEyy(title)) =>
                (\E f \in SxxEyyForms(title) : episode_code \in FormCodes(f[1], f[2]))
        /\ (~HasNxM(title) /\ ~HasSxxEyy(title) /\ HasEpisode(title)) =>
                (\E n \in EpisodeForms(title) : episode_code = EpisodeOnlyCode(n))

C3_Witness ==
    /\ ep_pc = "returned"
    /\ title = <<"s", "0", "1", "E", "2", " ", "2", "X", "0", "3">>
    /\ HasNxM(title) /\ HasSxxEyy(title)
    /\ episode_code \in FormCodes(<<"2">>, <<"0", "3">>)

----------------------------------------------------------------------------
(* Properties of request_json *)

\* the latest response was a 429 or a 5xx and the loop went on after sleeping
Retried == req_pc = "loop" /\ n_requests > 0

\* the Retry-After header of the latest response is a decimal number
NumericRetryAfter ==
    /\ response.retry_after # None
    /\ Len(response.retry_after) > 0
    /\ \A i \in DOMAIN response.retry_after : response.retry_after[i] \in Range(Digits)

\* the exponential wait of the pass that has just ended (attempt is already
\* the number of the next pass)
ExponentialWait == IF 2 ^ (attempt - 1) < 60 THEN 2 ^ (attempt - 1) ELSE 60

\* C4 as stated: after every 429 or 5xx response the wait is
\* min(60, 2^attempt), never more than 60 seconds, whatever the response carries
C4_WaitAlwaysExponential ==
    Retried => (wait = ExponentialWait /\ wait <= 60)

\* the Retry-After header of the latest response is made of characters that
\* str.isdigit accepts, not all of them decimal digits
SuperscriptRetryAfter ==
    /\ response.retry_after # None
    /\ Len(response.retry_after) > 0
    /\ \A i \in DOMAIN response.retry_after :
            response.retry_after[i] \in Range(Digits) \cup {"¹", "²", "³"}
    /\ \E i \in DOMAIN response.retry_after : response.retry_after[i] \in {"¹", "²", "³"}

\* C4 as amended: a 5xx response, or a 429 response whose Retry-After header is
\* absent or not made of digits, is followed by a wait of min(60, 2^attempt)
\* <= 60 seconds; a 429 response whose Retry-After header is a decimal number
\* is followed by a wait of that many seconds, which may exceed 60; a 429
\* response whose Retry-After header is made of digits int() rejects is
\* followed by no wait: request_json raises ValueError
C4_WaitExponentialUnlessRetryAfter ==
    /\ Retried =>
            IF response.status = 429 /\ NumericRetryAfter
            THEN wait = ToInt(response.retry_after)
            ELSE wait = ExponentialWait /\ wait <= 60
    /\ (n_requests > 0 /\ response.status \in {429} \cup (500 .. 599)) =>
            IF response.status = 429 /\ SuperscriptRetryAfter
            THEN req_pc = "raised" /\ req_exc = "ValueError"
            ELSE req_pc = "loop" \/ req_exc \in {"RuntimeError", "RequestException"}

C4_Witness ==
    /\ Retried
    /\ attempt = 7
    /\ response.status = 503
    /\ wait = 60

----------------------------------------------------------------------------
(* Properties of a run: failure, de-duplication, history *)

\* the rows of the history file
HistoryRows == {k \in DOMAIN history.lines : history.lines[k].kind = "row"}

\* no file holds anything written by the current run
NothingWrittenByRun ==
    /\ all_csv.by # snapshot
    /\ eps_csv.by # snapshot
    /\ sel_csv.by # snapshot
    /\ episode_png.by # snapshot
    /\ non_episode_png.by # snapshot
    /\ dashboard.by # snapshot
    /\ \A k \in HistoryRows : history.lines[k].snapshot_utc # snapshot

\* the latest response is one request_json does not retry
NonRetryableResponse ==
    \/ response.status \in 400 .. 499 /\ response.status # 429
    \/ /\ response.status \notin 400 .. 599
       /\ response.content_type \in {None, <<>>, HtmlType}

\* C6: a non-retryable failure of any search is raised without further retry,
\* leaves fetch_search_posts and main, is logged as a failed run, and the run
\* has written nothing: no CSV, history row, plot or dashboard, and the history
\* file is as it was, also when earlier searches of the run succeeded
C6_FailureAbortsBeforeWrites ==
    /\ [] ( /\ (pc = "fetch" /\ n_requests > 0 /\ NonRetryableResponse) => req_pc = "raised"
            /\ (pc = "fetch" /\ req_pc = "loop" /\ attempt > max_retries) => ENABLED RequestExhausted
            /\ (pc = "failed") =>
                    (req_pc = "raised" /\ snapshot \in failed_runs /\ NothingWrittenByRun)
            /\ (pc \in {"fetch", "failed"}) => NothingWrittenByRun )
    /\ [][ /\ (pc = "fetch") => (fileVars' = fileVars)
           /\ (pc = "fetch" /\ req_pc = "raised") =>
                (pc' = "failed" /\ n_requests' = n_requests /\ snapshot' \in failed_runs')
         ]_vars

C6_Witness ==
    /\ pc = "failed"
    /\ req_exc = "ValueError"
    /\ snapshot = 2
    /\ pos = 3
    /\ Len(posts) = 2
    /\ all_csv.by = 1
    /\ dashboard.by = 1
    /\ HistoryRows # {}

\* C7: one search per (subreddit, term) pair; the posts of a run have pairwise
\* different, non-empty ids; the post kept for an id is the first child with
\* that id in subreddit-major, term-minor, response order; and the run appends
\* at most one history row per post id
C7_OneSearchPerPairAndDedup ==
    /\ \A k \in DOMAIN Pairs :
        searches[k] = IF pc \in {"idle"} \/ (pc \in {"fetch", "failed"} /\ k > pos) THEN 0 ELSE 1
    /\ \A i, j \in DOMAIN posts : posts[i].id = posts[j].id => i = j
    /\ \A i \in DOMAIN posts : posts[i].id \notin {"", "<None>"}
    /\ {posts[i].id : i \in DOMAIN posts} = {i \in PostIds : first_seen[i] # NoChild}
    /\ \A i \in DOMAIN posts :
        LET d == first_seen[posts[i].id]
        IN  /\ posts[i].score = d.score
            /\ posts[i].num_comments = d.num_comments
            /\ posts[i].subreddit = d.subreddit
    /\ \A i \in PostIds :
        Cardinality({k \in HistoryRows : /\ history.lines[k].post_id = i
                                         /\ history.lines[k].snapshot_utc = snapshot}) <= 1

C7_Witness ==
    /\ pc = "plots"
    /\ repeated
    /\ first_seen["a"] # NoChild /\ first_seen["a"].subreddit = "television"
    /\ first_seen["b"] # NoChild /\ first_seen["b"].subreddit = "startrek"
    /\ first_seen["a"].score = 4
    /\ Len(posts) = 2
    /\ Cardinality({k \in HistoryRows : history.lines[k].snapshot_utc = snapshot}) = 2

\* the rows of the history file h for the post id i
RowsFor(h, i) == {k \in DOMAIN h.lines : h.lines[k].kind = "row" /\ h.lines[k].post_id = i}

\* C8: the history file only grows at its end; the header is written only when
\* the file does not exist; a run reaching append_history appends one row per
\* fetched post, each with the run's snapshot time, whatever earlier runs wrote
C8_HistoryAppendOnly ==
    [][ /\ history.exists => history'.exists
        /\ Len(history'.lines) >= Len(history.lines)
        /\ SubSeq(history'.lines, 1, Len(history.lines)) = history.lines
        /\ \A k \in (Len(history.lines) + 1) .. Len(history'.lines) :
                (history'.lines[k].kind = "header") <=> (k = 1 /\ ~history.exists)
        /\ history' # history => pc = "append"
        /\ pc = "append" =>
            /\ history'.exists
            /\ Len(history'.lines) =
                    Len(history.lines) + Len(posts) + (IF history.exists THEN 0 ELSE 1)
            /\ \A k \in DOMAIN posts :
                LET row == history'.lines[Len(history'.lines) - Len(posts) + k]
                IN  /\ row.kind = "row"
                    /\ row.post_id = posts[k].id
                    /\ row.snapshot_utc = snapshot
            /\ \A i \in PostIds :
                Cardinality(RowsFor(history', i)) =
                    Cardinality(RowsFor(history, i))
                        + (IF \E k \in DOMAIN posts : posts[k].id = i THEN 1 ELSE 0)
      ]_vars

C8_Witness ==
    /\ pc = "plots"
    /\ snapshot = 2
    /\ Cardinality(RowsFor(history, "a")) = 2
    /\ Cardinality({k \in DOMAIN history.lines : history.lines[k].kind = "header"}) = 1
    /\ \E j, k \in RowsFor(history, "a") :
            /\ history.lines[j].snapshot_utc = 1
            /\ history.lines[k].snapshot_utc = 2
            /\ history.lines[j].num_comments # history.lines[k].num_comments

----------------------------------------------------------------------------
(* Properties of the selectors *)

\* the positions of the trailers among sel_posts
TrailerPositions == {k \in DOMAIN sel_posts : sel_posts[k].is_trailer}

\* the positions of the posts that are neither episode threads nor trailers
OtherPositions ==
    {k \in DOMAIN sel_posts : sel_posts[k].episode_code = None /\ ~sel_posts[k].is_trailer}

\* p is at least as discussed as q: more comments, or as many and no lower score
AtLeastAsDiscussed(p, q) ==
    \/ p.num_comments > q.num_comments
    \/ p.num_comments = q.num_comments /\ p.score >= q.score

SameDiscussion(p, q) == p.num_comments = q.num_comments /\ p.score = q.score

\* C9: pick_trailer returns None exactly when no post is a trailer; otherwise a
\* trailer with the most comments, among those the highest score, and among
\* full ties the earliest of the list
C9_PickTrailerIsBest ==
    sel_pc = "done" =>
        /\ (trailer = NoPost) <=> (TrailerPositions = {})
        /\ trailer # NoPost =>
            \E k \in TrailerPositions :
                /\ trailer = sel_posts[k]
                /\ \A j \in TrailerPositions :
                    /\ AtLeastAsDiscussed(sel_posts[k], sel_posts[j])
                    /\ SameDiscussion(sel_posts[k], sel_posts[j]) => k <= j

C9_Witness ==
    /\ sel_pc = "done"
    /\ Len(sel_posts) = 3
    /\ TrailerPositions = {1, 2, 3}
    /\ sel_posts[1].num_comments < sel_posts[2].num_comments
    /\ SameDiscussion(sel_posts[2], sel_posts[3])
    /\ trailer = sel_posts[2]

\* C10: for n >= 0 pick_other_posts returns min(n, c) of the c posts that have
\* no episode code and are no trailers, most discussed first, none of the
\* omitted candidates outranking a returned one; the selected list, trailer
\* first, has at most 1 + n entries, no post twice, no trailer among the others
C10_OthersAreTopCandidates ==
    sel_pc = "done" =>
        /\ Len(others) = IF sel_n <= Cardinality(OtherPositions)
                         THEN sel_n ELSE Cardinality(OtherPositions)
        /\ \A i \in DOMAIN others :
            /\ \E k \in OtherPositions : sel_posts[k] = others[i]
            /\ others[i].episode_code = None
            /\ ~others[i].is_trailer
        /\ \A i, j \in DOMAIN others : i < j => AtLeastAsDiscussed(others[i], others[j])
        /\ \A k \in OtherPositions :
            (\A i \in DOMAIN others : others[i] # sel_posts[k]) =>
                \A i \in DOMAIN others : AtLeastAsDiscussed(others[i], sel_posts[k])
        /\ Len(selected) <= 1 + sel_n
        /\ \A i, j \in DOMAIN selected : selected[i].id = selected[j].id => i = j
        /\ \A i \in DOMAIN others : trailer = NoPost \/ others[i].id # trailer.id
        /\ selected = (IF trailer = NoPost THEN <<>> ELSE <<trailer>>) \o others

C10_Witness ==
    /\ sel_pc = "done"
    /\ sel_n = 1
    /\ Cardinality(OtherPositions) = 2
    /\ trailer # NoPost
    /\ Len(selected) = 2
    /\ selected[1] = trailer
    /\ selected[2] = sel_posts[3]
    /\ sel_posts[2].num_comments < sel_posts[3].num_comments

----------------------------------------------------------------------------
(* Properties of make_plots *)

\* the lines of the history file that are rows with a timestamp for snapshot_utc
ParseableRows ==
    {k \in DOMAIN history.lines :
        /\ history.lines[k].kind = "row"
        /\ history.lines[k].snapshot_utc \in Nat \ {0}}

\* the parseable rows of the post name n
RowsOfName(n) == {k \in ParseableRows : history.lines[k].post_name = n}

\* the point the row k contributes to its series
PointOfRow(k) == <<history.lines[k].snapshot_utc, ToInt(history.lines[k].num_comments)>>

\* the series the plot holds if the current run has written it
DrawnIn(png) == IF png.by = snapshot THEN png.rows ELSE <<>>

\* C11: make_plots groups the rows with a parseable snapshot time by post and
\* skips the others; each series holds one point per such row of its post,
\* ordered by snapshot time ascending; and each series is drawn in exactly one
\* plot, the episode plot exactly when its earliest row has is_episode = 1
C11_SeriesReconstruction ==
    pc = "dashboard" =>
        LET eps == DrawnIn(episode_png)
            non == DrawnIn(non_episode_png)
            names == {history.lines[k].post_name : k \in ParseableRows}
        IN  /\ DOMAIN eps \cap DOMAIN non = {}
            /\ DOMAIN eps \cup DOMAIN non = names
            /\ \A n \in names :
                LET series == IF n \in DOMAIN eps THEN eps[n] ELSE non[n]
                    own == RowsOfName(n)
                    earliest ==
                        CHOOSE k \in own :
                            \A j \in own :
                                \/ history.lines[k].snapshot_utc < history.lines[j].snapshot_utc
                                \/ /\ history.lines[k].snapshot_utc = history.lines[j].snapshot_utc
                                   /\ k <= j
                IN  /\ Len(series) = Cardinality(own)
                    /\ \A i, j \in DOMAIN series : i < j => series[i][1] <= series[j][1]
                    /\ \A k \in own :
                        Cardinality({i \in DOMAIN series : series[i] = PointOfRow(k)}) =
                            Cardinality({j \in own : PointOfRow(j) = PointOfRow(k)})
                    /\ (n \in DOMAIN eps) <=> (history.lines[earliest].is_episode = "1")

C11_Witness ==
    /\ pc = "dashboard"
    /\ Len(history.lines) = 4
    /\ history.lines[2].snapshot_utc = 2
    /\ history.lines[3].snapshot_utc = NoTime
    /\ history.lines[4].snapshot_utc = 1
    /\ \A k \in 2 .. 4 : history.lines[k].post_name = <<"t3_", "a">>
    /\ history.lines[2].is_episode = "0"
    /\ history.lines[4].is_episode = "1"
    /\ history.lines[2].num_comments = <<"2">>
    /\ history.lines[4].num_comments = <<"1">>
    /\ episode_png.by = snapshot
    /\ episode_png.rows[<<"t3_", "a">>] = << <<1, 1>>, <<2, 2>> >>
    /\ non_episode_png.by # snapshot

----------------------------------------------------------------------------
(* Properties of the order of main and of its late failures *)

\* the history file holds a row of the current run for every post of the run
RunRowsAppended ==
    \A k \in DOMAIN posts :
        \E j \in HistoryRows :
            /\ history.lines[j].snapshot_utc = snapshot
            /\ history.lines[j].post_id = posts[k].id

\* the current run has rewritten the three CSV files
CsvsRewritten ==
    /\ all_csv = [by |-> snapshot, rows |-> IdsOf(posts)]
    /\ eps_csv.by = snapshot
    /\ sel_csv.by = snapshot

\* the current run has passed append_history
PastAppend == pc \in {"plots", "dashboard", "done", "failed_plots", "failed_dashboard"}

\* what the current run has written so far follows the order all-posts CSV,
\* episode CSV, selected CSV, history, plots, dashboard
WrittenInOrder ==
    /\ eps_csv.by = snapshot => all_csv.by = snapshot
    /\ sel_csv.by = snapshot => eps_csv.by = snapshot
    /\ (PastAppend \/ \E j \in HistoryRows : history.lines[j].snapshot_utc = snapshot) =>
            (sel_csv.by = snapshot /\ PastAppend /\ RunRowsAppended)
    /\ (episode_png.by = snapshot \/ non_episode_png.by = snapshot) => PastAppend
    /\ dashboard.by = snapshot =>
            /\ PastAppend /\ pc # "plots" /\ pc # "failed_plots"
            /\ RunRowsAppended
            /\ CsvsRewritten
            /\ \A n \in {history.lines[j].post_name : j \in HistoryRows} :
                    \/ episode_png.by = snapshot /\ n \in DOMAIN episode_png.rows
                    \/ non_episode_png.by = snapshot /\ n \in DOMAIN non_episode_png.rows

\* C12 as stated: main writes in the order all-posts CSV, episode CSV, selected
\* CSV, history, plots, dashboard, so a dashboard is written only after the
\* run's rows are in the history; a failure of make_plots or of
\* write_dashboard_html aborts the run with the three CSVs rewritten, the rows
\* of the run appended and the dashboard of the previous run unchanged
C12_OrderAndLateFailureKeepsDashboard ==
    pc # "idle" =>
        /\ WrittenInOrder
        /\ pc \in {"failed_plots", "failed_dashboard"} =>
            /\ snapshot \in failed_runs
            /\ CsvsRewritten
            /\ RunRowsAppended
            /\ dashboard.by # snapshot

\* C12 as amended: the same order; a failure of make_plots, or of
\* write_dashboard_html before it opens the dashboard file, aborts the run with
\* the three CSVs rewritten, the rows of the run appended and the dashboard of
\* the previous run unchanged; a failure of write_dashboard_html after it
\* opened the file leaves the dashboard truncated instead
C12_OrderAndLateFailure ==
    /\ [] ( pc # "idle" =>
            /\ WrittenInOrder
            /\ pc \in {"failed_plots", "failed_dashboard"} =>
                /\ snapshot \in failed_runs
                /\ CsvsRewritten
                /\ RunRowsAppended
            /\ pc = "failed_plots" => dashboard.by # snapshot
            /\ pc = "failed_dashboard" =>
                (dashboard.by # snapshot \/ dashboard = [by |-> snapshot, rows |-> <<>>]) )
    /\ [][ /\ pc' = "failed_plots" => (pc = "plots" /\ dashboard' = dashboard)
           /\ pc' = "failed_dashboard" =>
                /\ pc = "dashboard"
                /\ dashboard' = dashboard \/ dashboard' = [by |-> snapshot, rows |-> <<>>]
           /\ dashboard' # dashboard => pc = "dashboard"
         ]_vars

C12_Witness ==
    /\ pc = "failed_dashboard"
    /\ snapshot = 2
    /\ Len(posts) = 1
    /\ all_csv.by = 2
    /\ sel_csv.by = 2
    /\ Cardinality(HistoryRows) = 2
    /\ dashboard = [by |-> 1, rows |-> IdsOf(posts)]
    /\ episode_png.by = 2

====
